---- MODULE Spec2Model ----
(***************************************************************************)
(* Model of the process logger (src/logger.go): the registry of open log   *)
(* files, size-based rotation, concurrent LogToProcess calls, the FATAL     *)
(* wrappers, SetFormat, SetMaxFileSize and Close.                          *)
(*                                                                         *)
(* Sizes are in bytes.  The constructor takes the rotation threshold in    *)
(* megabytes, so thresholds are multiples of MiB; the encoded length of an *)
(* event is an input of the call (it grows with the caller's strings).     *)
(***************************************************************************)
EXTENDS Integers, Sequences, FiniteSets, TLC

\* ---------------------------------------------------------------- bounds
MaxCalls == 3
ScenarioCalls == 6
MaxFaults == 1
CloseCalls == 3
LifeCalls == 2
\* findNextPartNumber's counter is kept modulo MaxProbes in a loop that
\* never exits (the loop goes on whatever the counter's value)
MaxProbes == 2

\* ------------------------------------------------------ program constants
DEBUG == 0
INFO == 1
WARN == 2
ERROR == 3
FATAL == 4

JSONFormat == 0
TextFormat == 1

MiB == 1024 * 1024

\* ---------------------------------------------------------------- inputs
Callers == {"a", "b"}
NoOne == "none"

\* (processDir, category) pairs the callers log to
Routes == {<<"scheduler", "">>, <<"api", "requests">>}

Levels == {DEBUG, INFO}
MinLevels == {INFO}
Formats == {JSONFormat, TextFormat}
\* maxFileSizeMB values handed to the constructor (0 = no rotation)
MaxFileSizesMB == {0, 100}
\* details: nil, or a value json.Marshal rejects (a channel)
Details == {"nil", "chan"}
\* encoded line lengths (with the trailing newline) the events come to
LineLens == {30 * MiB, 120 * MiB}

Date0 == "2024-01-15"
Date1 == "2024-01-16"
Dates == {Date0, Date1}

\* a category of 300 characters: the log file's name is longer than the 255
\* bytes a file name may have, so os.Stat and os.OpenFile on it fail with
\* ENAMETOOLONG
LongCategory == "c300"
NameTooLong(category) == category = LongCategory

\* the routes of the lifecycle runs, and the processDir of Debug .. Fatal
ApiRoute == <<"api", "requests">>
LongRoute == <<"api", LongCategory>>
General == "general"
LifeRoutes == {ApiRoute, LongRoute}
\* two pairs that differ by which component is empty
CollidingRoutes == {<<"p", "">>, <<"", "p">>}
AllRoutes ==
    Routes \cup LifeRoutes \cup {<<General, r[2]>> : r \in LifeRoutes} \cup CollidingRoutes

\* ----------------------------------------------------------------- paths
\* A path under baseLogDir: dir is the directory as path elements, stem the
\* file name's "_"-joined tokens, sfx the "."-separated extensions after
\* it, where 0 stands for "log" and n > 0 for the decimal number n.
\*   <base>/api/requests_2024-01-15.2.log
\*      = [dir |-> <<"api">>, stem |-> <<"requests", "2024-01-15">>, sfx |-> <<2, 0>>]
LogExt == <<0>>

\* filepath.Join drops empty elements
Join(elems) == SelectSeq(elems, LAMBDA e : e # "")

FileKey(processDir, category, currentDate) ==
    Join(<<processDir, category, currentDate>>)

ProcessLogDir(processDir) == Join(<<processDir>>)

BasePath(processDir, category, currentDate) ==
    IF category = ""
    THEN [dir |-> ProcessLogDir(processDir), stem |-> <<currentDate>>, sfx |-> <<>>]
    ELSE [dir |-> ProcessLogDir(processDir), stem |-> <<category, currentDate>>, sfx |-> <<>>]

\* path + ".log"
DotLog(p) == [p EXCEPT !.sfx = @ \o LogExt]

\* fmt.Sprintf("%s.%d", path, n)
DotNum(p, n) == [p EXCEPT !.sfx = @ \o <<n>>]

\* strings.TrimSuffix(path, ".log")
TrimLog(p) ==
    IF Len(p.sfx) > 0 /\ p.sfx[Len(p.sfx)] = 0
    THEN [p EXCEPT !.sfx = SubSeq(@, 1, Len(@) - 1)]
    ELSE p

\* ------------------------------------------------------------------ disk
\* A file: its size in bytes and the lines appended to it by this run, each
\* [t: the call's ticket, n: bytes written, whole: FALSE for the fragment a
\* failed write left].
EmptyFile == [size |-> 0, lines |-> <<>>]
NoFiles == [p \in {} |-> EmptyFile]

Exists(disk, p) == p \in DOMAIN disk

\* os.OpenFile(p, O_CREATE|O_WRONLY|O_APPEND): the file is created empty
\* when absent and left as it is otherwise
Created(disk, p) ==
    IF Exists(disk, p) THEN disk
    ELSE [q \in DOMAIN disk \cup {p} |-> IF q = p THEN EmptyFile ELSE disk[q]]

Appended(disk, p, line) ==
    [disk EXCEPT ![p] = [size |-> @.size + line.n, lines |-> Append(@.lines, line)]]

\* ------------------------------------------------------------ the logger
VARIABLES
    minLevel, format, maxFileSize,  \* Logger configuration
    logFiles,                       \* Logger.logFiles: fileKey -> fileInfo
    mutex,                          \* Logger.mutex: its holder, or NoOne
    handles,                        \* every *os.File opened: [path, open, base: the
                                    \* file's size at the open, wrote: bytes that
                                    \* Write calls on it appended with success]
    files, dirs,                    \* the disk under baseLogDir
    today,                          \* time.Now(), as a date
    call,                           \* each caller's LogToProcess in progress
    result,                         \* what each caller's last call returned
    ncalls, faults, tickets,        \* calls made, faults injected, handles resolved
    hist,                           \* calls past the level filter per routing key; encoding
                                    \* aborts; whether two calls ever overlapped
    load,                           \* the workload: the routes and line lengths the callers
                                    \* use and the number of calls they make
    stderr,                         \* tickets of the lines mirrored to os.Stderr
    exited                          \* os.Exit(1) has been called

vars == <<minLevel, format, maxFileSize, logFiles, mutex, handles, files, dirs,
          today, call, result, ncalls, faults, tickets, hist, load, stderr, exited>>

config == <<minLevel, format, maxFileSize, today, load, exited>>

\* The event's details and its encoded length are drawn where the call first
\* reads them (the encoding), the rest of its arguments at its start.  level
\* stays that of the caller's latest call after it has returned.  via is
\* the method the caller entered by, key the fileKey under which getLogFile
\* resolved the handle, partNum findNextPartNumber's counter.
Idle == [pc |-> "idle", level |-> DEBUG, proc |-> "", cat |-> "", len |-> 0,
         file |-> 0, t |-> 0, via |-> "LogToProcess", key |-> <<>>, partNum |-> 0]

RouteKeys == {<<r[1], r[2], d>> : r \in AllRoutes, d \in Dates}

\* NewLoggerWithRotation: the base directory exists, the map is empty
InitLogger ==
    /\ minLevel \in MinLevels
    /\ format \in Formats
    /\ \E mb \in MaxFileSizesMB : maxFileSize = mb * 1024 * 1024
    /\ logFiles = [k \in {} |-> [file |-> 0, size |-> 0, partNum |-> 1]]
    /\ mutex = NoOne
    /\ handles = <<>>
    /\ today = Date0
    /\ call = [c \in Callers |-> Idle]
    /\ result = [c \in Callers |-> "none"]
    /\ ncalls = 0
    /\ faults = 0
    /\ tickets = 0
    /\ hist = [issued |-> [k \in RouteKeys |-> 0], encErr |-> 0, overlap |-> FALSE]
    /\ stderr = {}
    /\ exited = FALSE

Init ==
    /\ InitLogger
    /\ files = NoFiles
    /\ dirs = {<<>>}
    /\ load = [routes |-> Routes, lens |-> LineLens, levels |-> Levels,
               calls |-> MaxCalls]

\* The route and the disks of the restart runs: what an earlier run of the
\* logger left for the key (part 1, or parts 1 and 2, the last one under or
\* over a 100 MB threshold), and logrotate-style "<name>.log.<n>" files,
\* the names findNextPartNumber probes.
ApiBase == BasePath(ApiRoute[1], ApiRoute[2], Date0)

DiskOf(paths, sizes) ==
    [p \in {paths[i] : i \in DOMAIN paths} |->
        [size |-> sizes[CHOOSE i \in DOMAIN paths : paths[i] = p], lines |-> <<>>]]

ExistingDisks ==
    LET part1 == DotLog(ApiBase)
        part2 == DotLog(DotNum(ApiBase, 2))
        old1 == DotNum(DotLog(ApiBase), 1)
    IN  { DiskOf(<<part1>>, <<30 * MiB>>),
          DiskOf(<<part1>>, <<120 * MiB>>),
          DiskOf(<<part1, part2>>, <<120 * MiB, 30 * MiB>>),
          DiskOf(<<part1, part2>>, <<120 * MiB, 120 * MiB>>),
          DiskOf(<<part1, old1>>, <<30 * MiB, 120 * MiB>>),
          DiskOf(<<part1, old1>>, <<120 * MiB, 30 * MiB>>) }

\* a Logger constructed over what an earlier run left on disk
InitRestart ==
    /\ InitLogger
    /\ files \in ExistingDisks
    /\ dirs = {<<>>, ProcessLogDir(ApiRoute[1])}
    /\ load = [routes |-> {ApiRoute}, lens |-> LineLens, levels |-> Levels,
               calls |-> MaxCalls]

\* one key, events that all encode to 30 MiB
InitScenario ==
    /\ InitLogger
    /\ files = NoFiles
    /\ dirs = {<<>>}
    /\ load = [routes |-> {ApiRoute}, lens |-> {30 * MiB}, levels |-> Levels,
               calls |-> ScenarioCalls]

\* two keys, events that all encode to 120 MiB
InitKeys ==
    /\ InitLogger
    /\ files = NoFiles
    /\ dirs = {<<>>}
    /\ load = [routes |-> Routes, lens |-> {120 * MiB}, levels |-> Levels,
               calls |-> MaxCalls]

\* process "p" without a category, and category "p" without a process
InitCollide ==
    /\ InitLogger
    /\ files = NoFiles
    /\ dirs = {<<>>}
    /\ load = [routes |-> CollidingRoutes, lens |-> {120 * MiB}, levels |-> Levels,
               calls |-> MaxCalls]

\* the lifecycle runs: FATAL events through LogToProcess, FatalProcess and
\* Fatal, SetFormat, SetMaxFileSize, Close, a change of date, and a category
\* whose file name is too long
InitLife ==
    /\ InitLogger
    /\ files = NoFiles
    /\ dirs = {<<>>}
    /\ load = [routes |-> LifeRoutes, lens |-> {120 * MiB}, levels |-> {FATAL},
               calls |-> LifeCalls]

\* one key and Close
InitClose ==
    /\ InitLogger
    /\ files = NoFiles
    /\ dirs = {<<>>}
    /\ load = [routes |-> {ApiRoute}, lens |-> {120 * MiB}, levels |-> Levels,
               calls |-> CloseCalls]


\* -------------------------------------------------------------- helpers
\* findNextPartNumber's loop from partNum on: the first n for which
\* "<basePath>.<n>" is absent, or n - 1 when that one is still under the
\* threshold
RECURSIVE FindPartFrom(_, _, _, _)
FindPartFrom(disk, basePath, partNum, max) ==
    IF ~Exists(disk, DotNum(basePath, partNum))
    THEN IF /\ partNum > 1
            /\ Exists(disk, DotNum(basePath, partNum - 1))
            /\ disk[DotNum(basePath, partNum - 1)].size < max
         THEN partNum - 1
         ELSE partNum
    ELSE FindPartFrom(disk, basePath, partNum + 1, max)

findNextPartNumber(disk, basePath, max) == FindPartFrom(disk, basePath, 1, max)

\* getLogFile's choice of the part and the file name on a miss
StartPart(disk, basePath, max) ==
    IF max > 0 THEN findNextPartNumber(disk, DotLog(basePath), max) ELSE 1

StartFile(basePath, partNum, max) ==
    IF max > 0 /\ partNum # 1
    THEN DotLog(DotNum(basePath, partNum))
    ELSE DotLog(basePath)

\* the rotation test of getLogFile on a hit
NeedsRotation(info, max) == max > 0 /\ info.size >= max

\* (mutant) the ".log" extension is not trimmed off the current name
RotatedPathUntrimmed(name, partNum) == DotLog(DotNum(name, partNum))

\* rotateLogFile's new path, from the current file's name
RotatedPath(name, partNum) == DotLog(DotNum(TrimLog(name), partNum))

\* json.Marshal fails on a channel; formatDetails falls back to %v
EncodeFails(fmt, det) == fmt = JSONFormat /\ det = "chan"

KeyOf(c) == FileKey(call[c].proc, call[c].cat, today)
RouteOf(c) == <<call[c].proc, call[c].cat, today>>

\* (mutant) the opened file is not put into the map
WithoutEntry(map, k, info) == map

WithEntry(map, k, info) ==
    [x \in DOMAIN map \cup {k} |-> IF x = k THEN info ELSE map[x]]

\* LogToProcess returns err: to its caller, or to FatalProcess or Fatal,
\* which drop err and go on to os.Exit
Return(c, err) ==
    /\ call' = [call EXCEPT ![c] =
                   [Idle EXCEPT !.level = call[c].level,
                                !.via = call[c].via,
                                !.pc = IF call[c].via = "LogToProcess" THEN "idle"
                                       ELSE "exit"]]
    /\ result' = [result EXCEPT ![c] = err]

\* getLogFile returns handle h: the call goes on to encode and write
Resolved(c, h) ==
    /\ call' = [call EXCEPT ![c].pc = "write", ![c].file = h, ![c].t = tickets + 1,
                            ![c].key = KeyOf(c)]
    /\ tickets' = tickets + 1
    /\ UNCHANGED result

\* ------------------------------------------------------------- actions
\* (mutant) the level filter is missing: every call goes on to getLogFile
LogToProcessUnfiltered(c) ==
    /\ call[c].pc = "idle"
    /\ ncalls < load.calls
    /\ ncalls' = ncalls + 1
    /\ \E level \in load.levels, r \in load.routes :
          /\ call' = [call EXCEPT ![c] =
                         [Idle EXCEPT !.pc = "lock1", !.level = level,
                                      !.proc = r[1], !.cat = r[2]]]
          /\ hist' = [hist EXCEPT !.issued[<<r[1], r[2], today>>] = @ + 1,
                                   !.overlap = @ \/ \E d \in Callers : call[d].pc # "idle"]
          /\ result' = [result EXCEPT ![c] = "none"]
    /\ UNCHANGED <<config, logFiles, mutex, handles, files, dirs, faults, tickets, stderr>>

\* LogToProcess up to its call of getLogFile: the level filter
LogToProcess(c) ==
    /\ call[c].pc = "idle"
    /\ ncalls < load.calls
    /\ ncalls' = ncalls + 1
    /\ \E level \in load.levels, r \in load.routes :
          IF level < minLevel
          THEN /\ result' = [result EXCEPT ![c] = "ok"]
               /\ call' = [call EXCEPT ![c].level = level]
               /\ UNCHANGED hist
          ELSE /\ call' = [call EXCEPT ![c] =
                              [Idle EXCEPT !.pc = "lock1", !.level = level,
                                           !.proc = r[1], !.cat = r[2]]]
               /\ hist' = [hist EXCEPT !.issued[<<r[1], r[2], today>>] = @ + 1,
                                        !.overlap = @ \/ \E d \in Callers : call[d].pc # "idle"]
               /\ result' = [result EXCEPT ![c] = "none"]
    /\ UNCHANGED <<config, logFiles, mutex, handles, files, dirs, faults, tickets, stderr>>

\* the pc under the mutex after each l.mutex.Lock()
Locked(pc) ==
    CASE pc = "lock1" -> "get"
      [] pc = "lock2" -> "upd"
      [] pc = "lockF" -> "setFormat"
      [] pc = "lockM" -> "setMax"
      [] pc = "lockC" -> "close"

\* l.mutex.Lock() in getLogFile, before the size update, and in SetFormat,
\* SetMaxFileSize and Close
MutexLock(c) ==
    /\ call[c].pc \in {"lock1", "lock2", "lockF", "lockM", "lockC"}
    /\ mutex = NoOne
    /\ mutex' = c
    /\ call' = [call EXCEPT ![c].pc = Locked(@)]
    /\ UNCHANGED <<config, logFiles, handles, files, dirs, result, ncalls, faults,
                   tickets, hist, stderr>>

\* getLogFile, the key is cached and under the threshold
GetHit(c) ==
    /\ call[c].pc = "get" /\ mutex = c
    /\ KeyOf(c) \in DOMAIN logFiles
    /\ ~NeedsRotation(logFiles[KeyOf(c)], maxFileSize)
    /\ Resolved(c, logFiles[KeyOf(c)].file)
    /\ mutex' = NoOne
    /\ UNCHANGED <<config, logFiles, handles, files, dirs, ncalls, faults, hist, stderr>>

\* getLogFile, the key is cached and rotateLogFile succeeds
GetRotate(c) ==
    /\ call[c].pc = "get" /\ mutex = c
    /\ KeyOf(c) \in DOMAIN logFiles
    /\ NeedsRotation(logFiles[KeyOf(c)], maxFileSize)
    /\ LET info == logFiles[KeyOf(c)]
           newPath == RotatedPath(handles[info.file].path, info.partNum + 1)
           h == Len(handles) + 1
       IN  /\ handles' = Append([handles EXCEPT ![info.file].open = FALSE],
                                [path |-> newPath, open |-> TRUE,
                                 base |-> Created(files, newPath)[newPath].size,
                                 wrote |-> 0])
           /\ files' = Created(files, newPath)
           /\ logFiles' = [logFiles EXCEPT ![KeyOf(c)] =
                              [file |-> h, size |-> 0, partNum |-> info.partNum + 1]]
           /\ Resolved(c, h)
    /\ mutex' = NoOne
    /\ UNCHANGED <<config, dirs, ncalls, faults, hist, stderr>>

\* (mutant) a failed rotation closes the file of every entry
GetRotateFailClosesAll(c) ==
    /\ call[c].pc = "get" /\ mutex = c
    /\ KeyOf(c) \in DOMAIN logFiles
    /\ NeedsRotation(logFiles[KeyOf(c)], maxFileSize)
    /\ faults < MaxFaults
    /\ faults' = faults + 1
    /\ handles' = [h \in DOMAIN handles |-> [handles[h] EXCEPT !.open = FALSE]]
    /\ logFiles' = [logFiles EXCEPT ![KeyOf(c)].partNum = @ + 1]
    /\ Return(c, "rotateErr")
    /\ mutex' = NoOne
    /\ UNCHANGED <<config, files, dirs, ncalls, tickets, hist, stderr>>

\* getLogFile, the key is cached and rotateLogFile cannot open the new part
GetRotateFail(c) ==
    /\ call[c].pc = "get" /\ mutex = c
    /\ KeyOf(c) \in DOMAIN logFiles
    /\ NeedsRotation(logFiles[KeyOf(c)], maxFileSize)
    /\ faults < MaxFaults
    /\ faults' = faults + 1
    /\ handles' = [handles EXCEPT ![logFiles[KeyOf(c)].file].open = FALSE]
    /\ logFiles' = [logFiles EXCEPT ![KeyOf(c)].partNum = @ + 1]
    /\ Return(c, "rotateErr")
    /\ mutex' = NoOne
    /\ UNCHANGED <<config, files, dirs, ncalls, tickets, hist, stderr>>

\* getLogFile, the key is not cached and os.MkdirAll fails
GetMkdirFail(c) ==
    /\ call[c].pc = "get" /\ mutex = c
    /\ KeyOf(c) \notin DOMAIN logFiles
    /\ faults < MaxFaults
    /\ faults' = faults + 1
    /\ Return(c, "mkdirErr")
    /\ mutex' = NoOne
    /\ UNCHANGED <<config, logFiles, handles, files, dirs, ncalls, tickets, hist, stderr>>

\* getLogFile, the key is not cached and os.OpenFile fails: by a fault, or
\* on a name that is too long (with rotation enabled findNextPartNumber
\* comes first and does not return on such a name)
GetOpenFail(c) ==
    /\ call[c].pc = "get" /\ mutex = c
    /\ KeyOf(c) \notin DOMAIN logFiles
    /\ ~(NameTooLong(call[c].cat) /\ maxFileSize > 0)
    /\ IF NameTooLong(call[c].cat)
       THEN faults' = faults
       ELSE faults < MaxFaults /\ faults' = faults + 1
    /\ dirs' = dirs \cup {ProcessLogDir(call[c].proc)}
    /\ Return(c, "openErr")
    /\ mutex' = NoOne
    /\ UNCHANGED <<config, logFiles, handles, files, ncalls, tickets, hist, stderr>>

\* getLogFile, the key is not cached, the file opens and file.Stat fails
GetStatFail(c) ==
    /\ call[c].pc = "get" /\ mutex = c
    /\ KeyOf(c) \notin DOMAIN logFiles
    /\ ~NameTooLong(call[c].cat)
    /\ faults < MaxFaults
    /\ faults' = faults + 1
    /\ dirs' = dirs \cup {ProcessLogDir(call[c].proc)}
    /\ LET basePath == BasePath(call[c].proc, call[c].cat, today)
           partNum == StartPart(files, basePath, maxFileSize)
           filename == StartFile(basePath, partNum, maxFileSize)
       IN  /\ files' = Created(files, filename)
           /\ handles' = Append(handles, [path |-> filename, open |-> FALSE,
                                          base |-> files'[filename].size, wrote |-> 0])
    /\ Return(c, "statErr")
    /\ mutex' = NoOne
    /\ UNCHANGED <<config, logFiles, ncalls, tickets, hist, stderr>>

\* getLogFile, the key is not cached: the file is opened and cached
GetMiss(c) ==
    /\ call[c].pc = "get" /\ mutex = c
    /\ KeyOf(c) \notin DOMAIN logFiles
    /\ ~NameTooLong(call[c].cat)
    /\ dirs' = dirs \cup {ProcessLogDir(call[c].proc)}
    /\ LET basePath == BasePath(call[c].proc, call[c].cat, today)
           partNum == StartPart(files, basePath, maxFileSize)
           filename == StartFile(basePath, partNum, maxFileSize)
           h == Len(handles) + 1
       IN  /\ files' = Created(files, filename)
           /\ handles' = Append(handles, [path |-> filename, open |-> TRUE,
                                          base |-> files'[filename].size, wrote |-> 0])
           /\ logFiles' = WithEntry(logFiles, KeyOf(c),
                              [file |-> h, size |-> files'[filename].size, partNum |-> partNum])
           /\ Resolved(c, h)
    /\ mutex' = NoOne
    /\ UNCHANGED <<config, ncalls, faults, hist, stderr>>

\* LogToProcess after getLogFile: json.Marshal of the entry fails
EncodeFail(c) ==
    /\ call[c].pc = "write"
    /\ \E det \in Details : EncodeFails(format, det)
    /\ hist' = [hist EXCEPT !.encErr = @ + 1]
    /\ Return(c, "marshalErr")
    /\ UNCHANGED <<config, logFiles, mutex, handles, files, dirs, ncalls, faults,
                   tickets, stderr>>

\* file.Write on a handle that a rotation has closed
WriteClosed(c) ==
    /\ call[c].pc = "write"
    /\ \E det \in Details : ~EncodeFails(format, det)
    /\ ~handles[call[c].file].open
    /\ Return(c, "writeErr")
    /\ UNCHANGED <<config, logFiles, mutex, handles, files, dirs, ncalls, faults,
                   tickets, hist, stderr>>

\* (mutant) the failed write's bytes are credited to the entry's size
WriteFailCredited(c) ==
    /\ call[c].pc = "write"
    /\ \E det \in Details : ~EncodeFails(format, det)
    /\ handles[call[c].file].open
    /\ faults < MaxFaults
    /\ faults' = faults + 1
    /\ \E len \in load.lens : \E part \in {0, len \div 2} :
          /\ files' = IF part = 0 THEN files
                      ELSE Appended(files, handles[call[c].file].path,
                                    [t |-> call[c].t, n |-> part, whole |-> FALSE])
          /\ logFiles' = IF KeyOf(c) \in DOMAIN logFiles
                         THEN [logFiles EXCEPT ![KeyOf(c)].size = @ + len]
                         ELSE logFiles
    /\ Return(c, "writeErr")
    /\ UNCHANGED <<config, mutex, handles, dirs, ncalls, tickets, hist, stderr>>

\* file.Write fails, having written nothing or a part of the line
WriteFail(c) ==
    /\ call[c].pc = "write"
    /\ \E det \in Details : ~EncodeFails(format, det)
    /\ handles[call[c].file].open
    /\ faults < MaxFaults
    /\ faults' = faults + 1
    /\ \E len \in load.lens : \E part \in {0, len \div 2} :
          files' = IF part = 0 THEN files
                   ELSE Appended(files, handles[call[c].file].path,
                                 [t |-> call[c].t, n |-> part, whole |-> FALSE])
    /\ Return(c, "writeErr")
    /\ UNCHANGED <<config, logFiles, mutex, handles, dirs, ncalls, tickets, hist, stderr>>

\* file.Write appends the whole line
WriteOk(c) ==
    /\ call[c].pc = "write"
    /\ \E det \in Details : ~EncodeFails(format, det)
    /\ handles[call[c].file].open
    /\ \E len \in load.lens :
          /\ files' = Appended(files, handles[call[c].file].path,
                               [t |-> call[c].t, n |-> len, whole |-> TRUE])
          /\ handles' = [handles EXCEPT ![call[c].file].wrote = @ + len]
          /\ call' = [call EXCEPT ![c].pc = "lock2", ![c].len = len]
    /\ UNCHANGED <<config, logFiles, mutex, dirs, result, ncalls, faults,
                   tickets, hist, stderr>>

\* the size update under the mutex, the stderr mirror for FATAL, return nil
UpdateSize(c) ==
    /\ call[c].pc = "upd" /\ mutex = c
    /\ logFiles' = IF KeyOf(c) \in DOMAIN logFiles
                   THEN [logFiles EXCEPT ![KeyOf(c)].size = @ + call[c].len]
                   ELSE logFiles
    /\ mutex' = NoOne
    /\ stderr' = IF call[c].level = FATAL THEN stderr \cup {call[c].t} ELSE stderr
    /\ Return(c, "ok")
    /\ UNCHANGED <<config, handles, files, dirs, ncalls, faults, tickets, hist>>

Next ==
    \E c \in Callers :
        \/ LogToProcess(c)
        \/ MutexLock(c)
        \/ GetHit(c)
        \/ GetRotate(c)
        \/ GetRotateFail(c)
        \/ GetMkdirFail(c)
        \/ GetOpenFail(c)
        \/ GetStatFail(c)
        \/ GetMiss(c)
        \/ EncodeFail(c)
        \/ WriteClosed(c)
        \/ WriteFail(c)
        \/ WriteOk(c)
        \/ UpdateSize(c)

Spec == Init /\ [][Next]_vars

SpecRestart == InitRestart /\ [][Next]_vars

SpecScenario == InitScenario /\ [][Next]_vars

\* LogToProcess on a filesystem that does not fail
NextNoFault ==
    \E c \in Callers :
        \/ LogToProcess(c)
        \/ MutexLock(c)
        \/ GetHit(c)
        \/ GetRotate(c)
        \/ GetMiss(c)
        \/ EncodeFail(c)
        \/ WriteClosed(c)
        \/ WriteOk(c)
        \/ UpdateSize(c)

SpecNoFault == InitScenario /\ [][NextNoFault]_vars

SpecKeys == InitKeys /\ [][Next]_vars

SpecCollide == InitCollide /\ [][Next]_vars

\* ----------------------------------------------- the rest of the methods
\* a FATAL call entered by FatalProcess or Fatal: LogToProcess's level
\* filter, then on to getLogFile
Begin(c, via, processDir, category) ==
    IF FATAL < minLevel
    THEN /\ result' = [result EXCEPT ![c] = "ok"]
         /\ call' = [call EXCEPT ![c] =
                        [Idle EXCEPT !.pc = "exit", !.level = FATAL, !.via = via]]
         /\ UNCHANGED hist
    ELSE /\ call' = [call EXCEPT ![c] =
                        [Idle EXCEPT !.pc = "lock1", !.level = FATAL, !.via = via,
                                     !.proc = processDir, !.cat = category]]
         /\ hist' = [hist EXCEPT !.issued[<<processDir, category, today>>] = @ + 1,
                                  !.overlap = @ \/ \E d \in Callers : call[d].pc # "idle"]
         /\ result' = [result EXCEPT ![c] = "none"]

\* FatalProcess calls LogToProcess(FATAL, processDir, category, ...)
FatalProcess(c) ==
    /\ call[c].pc = "idle"
    /\ ncalls < load.calls
    /\ ncalls' = ncalls + 1
    /\ \E r \in load.routes : Begin(c, "FatalProcess", r[1], r[2])
    /\ UNCHANGED <<config, logFiles, mutex, handles, files, dirs, faults, tickets, stderr>>

\* Fatal calls LogToProcess(FATAL, "general", source, ...)
Fatal(c) ==
    /\ call[c].pc = "idle"
    /\ ncalls < load.calls
    /\ ncalls' = ncalls + 1
    /\ \E source \in {r[2] : r \in load.routes} : Begin(c, "Fatal", General, source)
    /\ UNCHANGED <<config, logFiles, mutex, handles, files, dirs, faults, tickets, stderr>>

\* os.Exit(1) in FatalProcess and Fatal, after LogToProcess has returned:
\* the process ends, and every goroutine with it
OsExit(c) ==
    /\ call[c].pc = "exit"
    /\ exited' = TRUE
    /\ call' = [d \in Callers |-> [call[d] EXCEPT !.pc = "dead"]]
    /\ UNCHANGED <<minLevel, format, maxFileSize, today, load, logFiles, mutex, handles,
                   files, dirs, result, ncalls, faults, tickets, hist, stderr>>

\* a caller enters SetFormat, SetMaxFileSize or Close and comes to its
\* l.mutex.Lock()
CallSetFormat(c) ==
    /\ call[c].pc = "idle"
    /\ ncalls < load.calls
    /\ ncalls' = ncalls + 1
    /\ call' = [call EXCEPT ![c].pc = "lockF"]
    /\ UNCHANGED <<config, logFiles, mutex, handles, files, dirs, result, faults,
                   tickets, hist, stderr>>

CallSetMaxFileSize(c) ==
    /\ call[c].pc = "idle"
    /\ ncalls < load.calls
    /\ ncalls' = ncalls + 1
    /\ call' = [call EXCEPT ![c].pc = "lockM"]
    /\ UNCHANGED <<config, logFiles, mutex, handles, files, dirs, result, faults,
                   tickets, hist, stderr>>

CallClose(c) ==
    /\ call[c].pc = "idle"
    /\ ncalls < load.calls
    /\ ncalls' = ncalls + 1
    /\ call' = [call EXCEPT ![c].pc = "lockC"]
    /\ UNCHANGED <<config, logFiles, mutex, handles, files, dirs, result, faults,
                   tickets, hist, stderr>>

\* SetFormat under the mutex
SetFormat(c) ==
    /\ call[c].pc = "setFormat" /\ mutex = c
    /\ \E f \in Formats : format' = f
    /\ mutex' = NoOne
    /\ call' = [call EXCEPT ![c].pc = "idle"]
    /\ UNCHANGED <<minLevel, maxFileSize, today, load, exited, logFiles, handles, files,
                   dirs, result, ncalls, faults, tickets, hist, stderr>>

\* SetMaxFileSize under the mutex
SetMaxFileSize(c) ==
    /\ call[c].pc = "setMax" /\ mutex = c
    /\ \E mb \in MaxFileSizesMB : maxFileSize' = mb * 1024 * 1024
    /\ mutex' = NoOne
    /\ call' = [call EXCEPT ![c].pc = "idle"]
    /\ UNCHANGED <<minLevel, format, today, load, exited, logFiles, handles, files,
                   dirs, result, ncalls, faults, tickets, hist, stderr>>

\* (mutant) Close deletes the entries and closes no file
CloseForgets(c) ==
    /\ call[c].pc = "close" /\ mutex = c
    /\ logFiles' = [k \in {} |-> logFiles[k]]
    /\ mutex' = NoOne
    /\ call' = [call EXCEPT ![c].pc = "idle"]
    /\ UNCHANGED <<config, handles, files, dirs, result, ncalls, faults, tickets,
                   hist, stderr>>

\* Close under the mutex: the file of every entry is closed, the entries stay
Close(c) ==
    /\ call[c].pc = "close" /\ mutex = c
    /\ handles' = [h \in DOMAIN handles |->
                      IF \E k \in DOMAIN logFiles : logFiles[k].file = h
                      THEN [handles[h] EXCEPT !.open = FALSE]
                      ELSE handles[h]]
    /\ mutex' = NoOne
    /\ call' = [call EXCEPT ![c].pc = "idle"]
    /\ UNCHANGED <<config, logFiles, files, dirs, result, ncalls, faults, tickets,
                   hist, stderr>>

\* time.Now() passes midnight
Midnight ==
    /\ ~exited
    /\ today = Date0
    /\ today' = Date1
    /\ UNCHANGED <<minLevel, format, maxFileSize, load, exited, logFiles, mutex, handles,
                   files, dirs, call, result, ncalls, faults, tickets, hist, stderr>>

\* getLogFile, the key is not cached, rotation is enabled and the file name
\* is too long: os.MkdirAll succeeds and findNextPartNumber starts probing
GetProbe(c) ==
    /\ call[c].pc = "get" /\ mutex = c
    /\ KeyOf(c) \notin DOMAIN logFiles
    /\ maxFileSize > 0
    /\ NameTooLong(call[c].cat)
    /\ dirs' = dirs \cup {ProcessLogDir(call[c].proc)}
    /\ call' = [call EXCEPT ![c].pc = "find", ![c].partNum = 1]
    /\ UNCHANGED <<config, logFiles, mutex, handles, files, result, ncalls, faults,
                   tickets, hist, stderr>>

\* findNextPartNumber's loop: os.Stat fails with an error that is not
\* "not exist", which the loop takes for "exists": partNum++
ProbeNext(c) ==
    /\ call[c].pc = "find" /\ mutex = c
    /\ call' = [call EXCEPT ![c].partNum = (@ % MaxProbes) + 1]
    /\ UNCHANGED <<config, logFiles, mutex, handles, files, dirs, result, ncalls,
                   faults, tickets, hist, stderr>>

\* the steps of a call in progress (all but the caller's decision to call)
Step(c) ==
    \/ MutexLock(c)
    \/ GetHit(c)
    \/ GetRotate(c)
    \/ GetRotateFail(c)
    \/ GetMkdirFail(c)
    \/ GetOpenFail(c)
    \/ GetStatFail(c)
    \/ GetMiss(c)
    \/ GetProbe(c)
    \/ ProbeNext(c)
    \/ EncodeFail(c)
    \/ WriteClosed(c)
    \/ WriteFail(c)
    \/ WriteOk(c)
    \/ UpdateSize(c)
    \/ OsExit(c)
    \/ SetFormat(c)
    \/ SetMaxFileSize(c)
    \/ Close(c)

NextClose ==
    \E c \in Callers :
        \/ LogToProcess(c)
        \/ CallClose(c)
        \/ MutexLock(c)
        \/ GetHit(c)
        \/ GetRotate(c)
        \/ GetRotateFail(c)
        \/ GetMkdirFail(c)
        \/ GetOpenFail(c)
        \/ GetStatFail(c)
        \/ GetMiss(c)
        \/ EncodeFail(c)
        \/ WriteClosed(c)
        \/ WriteFail(c)
        \/ WriteOk(c)
        \/ UpdateSize(c)
        \/ Close(c)

\* LogToProcess and Close
SpecClose == InitClose /\ [][NextClose]_vars

NextLife ==
    \/ Midnight
    \/ \E c \in Callers :
          \/ LogToProcess(c)
          \/ FatalProcess(c)
          \/ Fatal(c)
          \/ CallSetFormat(c)
          \/ CallSetMaxFileSize(c)
          \/ CallClose(c)
          \/ Step(c)

\* Fair scheduling: a call in progress that can take a step takes one, and a
\* caller waiting for the mutex gets it (sync.Mutex hands the lock to a
\* waiter that has waited long).  Callers need not make calls.
Fairness ==
    \A c \in Callers :
        /\ WF_vars(Step(c))
        /\ SF_vars(MutexLock(c))

SpecLive == InitLife /\ [][NextLife]_vars /\ Fairness


\* ============================================================== claims
\* The layout of section 6: part 1 has no number, part p >= 2 has ".p"
\* before the extension.
LayoutPath(processDir, category, date, p) ==
    IF p = 1
    THEN DotLog(BasePath(processDir, category, date))
    ELSE DotLog(DotNum(BasePath(processDir, category, date), p))

\* the files of a routing key k = <<process, category, date>>: those in the
\* process directory named after the category and the date
KeyFiles(k) ==
    {p \in DOMAIN files : /\ p.dir = ProcessLogDir(k[1])
                          /\ p.stem = BasePath(k[1], k[2], k[3]).stem}

\* the lines of a key's files, each as <<file, position>>
LinesOf(k) == UNION {{<<p, i>> : i \in DOMAIN files[p].lines} : p \in KeyFiles(k)}

LineAt(x) == files[x[1]].lines[x[2]]

\* a file's place in the sequence of parts: the number before ".log"
PartNo(p) == IF Len(p.sfx) >= 2 THEN p.sfx[Len(p.sfx) - 1] ELSE 1

TicketsIn(p) == [i \in DOMAIN files[p].lines |-> files[p].lines[i].t]

RECURSIVE MaxLineFrom(_, _)
MaxLineFrom(lines, i) ==
    IF i > Len(lines) THEN 0
    ELSE LET rest == MaxLineFrom(lines, i + 1)
         IN  IF lines[i].n > rest THEN lines[i].n ELSE rest

AllReturned == \A c \in Callers : call[c].pc = "idle"

\* C1: once all calls have returned (no filesystem fault, no encoding
\* abort), every key's files hold exactly one whole line per call that passed
\* the level filter, each in exactly one part.
C1_NoLineLost ==
    (AllReturned /\ faults = 0 /\ hist.encErr = 0) =>
        \A k \in RouteKeys :
            /\ Cardinality(LinesOf(k)) = hist.issued[k]
            /\ \A x \in LinesOf(k) : LineAt(x).whole
            /\ \A x, y \in LinesOf(k) : LineAt(x).t = LineAt(y).t => x = y

\* C2: with rotation enabled and no filesystem fault, a rotation leaves a
\* part of size < threshold + one event (the largest written to it), makes
\* exactly one new file, the next numbered part, and starts its tracked size
\* at 0.
C2_RotationBound ==
    [][\A k \in DOMAIN logFiles :
          (faults = 0 /\ k \in DOMAIN logFiles' /\ logFiles'[k].file # logFiles[k].file) =>
              LET left == files[handles[logFiles[k].file].path]
              IN  /\ left.size < maxFileSize + MaxLineFrom(left.lines, 1)
                  /\ logFiles'[k].size = 0
                  /\ logFiles'[k].partNum = logFiles[k].partNum + 1
                  /\ Cardinality(DOMAIN files' \ DOMAIN files) = 1]_vars

\* the number of parts 1..N of the route that exist on the disk, from part p on
RECURSIVE PartsFrom(_, _, _)
PartsFrom(disk, r, p) ==
    IF Exists(disk, LayoutPath(r[1], r[2], r[3], p)) THEN PartsFrom(disk, r, p + 1) ELSE p - 1

\* C3: with rotation enabled and parts 1..N (N >= 1) on disk, the write that
\* first resolves the key in a new Logger goes to part N, with partNum = N
\* and no new file, when part N is under the threshold, and to part N + 1
\* otherwise.
C3_RestartResumes ==
    [][\A c \in Callers :
          LET r == RouteOf(c)
              n == PartsFrom(files, r, 1)
          IN  ( /\ call[c].pc = "get" /\ call'[c].pc = "write"
                /\ KeyOf(c) \notin DOMAIN logFiles
                /\ maxFileSize > 0
                /\ n >= 1 ) =>
              LET info == logFiles'[KeyOf(c)]
                  path == handles'[info.file].path
              IN  IF files[LayoutPath(r[1], r[2], r[3], n)].size < maxFileSize
                  THEN /\ info.partNum = n
                       /\ path = LayoutPath(r[1], r[2], r[3], n)
                       /\ DOMAIN files' = DOMAIN files
                  ELSE /\ info.partNum = n + 1
                       /\ path = LayoutPath(r[1], r[2], r[3], n + 1)]_vars

\* C4: (in runs without a filesystem fault) the handle of every registry
\* entry is open on the layout's file for the entry's partNum.
C4_HandleMatchesLayout ==
    faults = 0 =>
        \A r \in Routes :
            LET k == FileKey(r[1], r[2], today)
            IN  k \in DOMAIN logFiles =>
                    handles[logFiles[k].file].path =
                        LayoutPath(r[1], r[2], today, logFiles[k].partNum)

\* The scenario of C5, in the units the constructor takes: a threshold of
\* 100 MiB and five sequential writes of 30 MiB each to one fresh key, all
\* returned, with no fault and no encoding abort.
ApiKey == <<ApiRoute[1], ApiRoute[2], Date0>>
Part1 == LayoutPath(ApiRoute[1], ApiRoute[2], Date0, 1)
Part2 == LayoutPath(ApiRoute[1], ApiRoute[2], Date0, 2)

FiveWritesDone ==
    /\ maxFileSize = 100 * MiB
    /\ load.lens = {30 * MiB}
    /\ AllReturned
    /\ faults = 0 /\ hist.encErr = 0 /\ ~hist.overlap
    /\ hist.issued[ApiKey] = 5

\* C5 as stated: part 1 holds events 1-3 (90), part 2 holds events 4 and 5.
C5_ThreeThenTwo ==
    FiveWritesDone =>
        /\ DOMAIN files = {Part1, Part2}
        /\ TicketsIn(Part1) = <<1, 2, 3>>
        /\ files[Part1].size = 90 * MiB
        /\ TicketsIn(Part2) = <<4, 5>>

\* C5 amended: part 1 holds events 1-4 (120, the fourth is appended because
\* the tracked size 90 is under the threshold), the fifth event rotates and
\* part 2 holds event 5.
C5_FourThenOne ==
    FiveWritesDone =>
        /\ DOMAIN files = {Part1, Part2}
        /\ TicketsIn(Part1) = <<1, 2, 3, 4>>
        /\ files[Part1].size = 120 * MiB
        /\ TicketsIn(Part2) = <<5>>
        /\ files[Part2].size = 30 * MiB
        /\ logFiles[FileKey(ApiRoute[1], ApiRoute[2], Date0)].partNum = 2

C5_Witness == FiveWritesDone

\* C6: within a key, lines lie in the files in the order in which their
\* calls resolved the handle (the ticket), across the parts and within each.
C6_AppendOrder ==
    \A k \in RouteKeys :
        \A x, y \in LinesOf(k) :
            (\/ PartNo(x[1]) < PartNo(y[1])
             \/ (x[1] = y[1] /\ x[2] < y[2])) => LineAt(x).t < LineAt(y).t

\* C7: the step in which a call's append fails (the call ends at the write,
\* not on the encoding) returns an error and leaves the registry (every
\* entry's handle, size and partNum) as it was.
C7_FailedWriteNoCredit ==
    [][\A c \in Callers :
          (call[c].pc = "write" /\ call'[c].pc = "idle" /\ hist'.encErr = hist.encErr) =>
              /\ result'[c] = "writeErr"
              /\ logFiles' = logFiles]_vars

C7_Witness ==
    \E c \in Callers :
        /\ result[c] = "writeErr"
        /\ faults > 0
        /\ \E k \in DOMAIN logFiles : logFiles[k].size > 0

\* C8: a call that fails on opening or statting a file, at first open or in
\* a rotation, leaves no entry for its key in the registry.
C8_OpenFailureUnresolved ==
    [][\A c \in Callers :
          (call[c].pc = "get" /\ result'[c] \in {"openErr", "statErr", "rotateErr"}) =>
              KeyOf(c) \notin DOMAIN logFiles']_vars

\* C9: no call is aborted by the encoding: a call that has its handle either
\* appends a whole line and goes on to the size update, or fails on the
\* append itself.
C9_EncodingNeverAborts ==
    [][\A c \in Callers :
          (call[c].pc = "write" /\ call'[c].pc # "write") =>
              \/ result'[c] = "writeErr"
              \/ /\ call'[c].pc = "lock2"
                 /\ \E p \in DOMAIN files :
                       /\ Len(files'[p].lines) = Len(files[p].lines) + 1
                       /\ files'[p].lines[Len(files'[p].lines)].whole]_vars

\* C10: a call below the minimum level returns nil at once and changes no
\* directory, file, handle, registry entry or the mutex.
C10_FilteredIsNoOp ==
    [][/\ \A c \in Callers :
             ( /\ ncalls' # ncalls
               /\ call[c].pc = "idle"
               /\ call'[c] # call[c] \/ result'[c] # result[c]
               /\ call'[c].level < minLevel ) =>
                 /\ call'[c].pc = "idle"
                 /\ result'[c] = "ok"
                 /\ UNCHANGED <<logFiles, mutex, handles, files, dirs>>
       /\ (ncalls' # ncalls /\ call' = call /\ result' = result) =>
              UNCHANGED <<logFiles, mutex, handles, files, dirs>>]_vars

C10_Witness ==
    \E c \in Callers :
        /\ call[c].pc = "idle"
        /\ call[c].level < minLevel
        /\ result[c] = "ok"
        /\ DOMAIN logFiles # {}
        /\ \E d \in Callers : call[d].pc = "write"

\* C11: for one key, under sequential and racing calls (and Close): no two
\* open handles are on the same file, the key has no more files than its
\* entry's partNum, and every line that is appended goes through the handle
\* the key's entry holds at that moment (the one file of the current part).
C11_OneFilePerPart ==
    /\ [](\A g, h \in DOMAIN handles :
             (handles[g].open /\ handles[h].open /\ handles[g].path = handles[h].path)
                 => g = h)
    /\ [](\A r \in AllRoutes :
             FileKey(r[1], r[2], today) \in DOMAIN logFiles =>
                 Cardinality(KeyFiles(<<r[1], r[2], today>>)) <=
                     logFiles[FileKey(r[1], r[2], today)].partNum)
    /\ [][\A c \in Callers :
             (call[c].pc = "write" /\ call'[c].pc = "lock2") =>
                 /\ call[c].key \in DOMAIN logFiles
                 /\ logFiles[call[c].key].file = call[c].file]_vars

\* two calls that overlapped hold the first handle opened, before any write
C11_Witness ==
    /\ hist.overlap
    /\ \A c \in Callers : call[c].pc = "write" /\ call[c].file = 1
    /\ Len(handles) = 1
    /\ tickets = 2

\* the errors LogToProcess returns from getLogFile and from file.Write
IoErrors == {"mkdirErr", "openErr", "statErr", "rotateErr", "writeErr"}

\* C12: the step in which a call fails on a directory, an open, a stat, a
\* rotation or a write leaves the entry of every other key as it was (file,
\* size, partNum) and its file as open or closed as it was.
C12_FailureLeavesOtherKeys ==
    [][\A c \in Callers :
          (call[c].pc # "idle" /\ result'[c] # result[c] /\ result'[c] \in IoErrors) =>
              \A k \in DOMAIN logFiles \ {KeyOf(c)} :
                  /\ k \in DOMAIN logFiles'
                  /\ logFiles'[k] = logFiles[k]
                  /\ handles'[logFiles[k].file] = handles[logFiles[k].file]]_vars

\* a rotation has failed for one key while another key's file is open
C12_Witness ==
    \E c \in Callers :
        /\ result[c] = "rotateErr"
        /\ Cardinality(DOMAIN logFiles) = 2
        /\ \E k \in DOMAIN logFiles : handles[logFiles[k].file].open

\* C13: a FATAL call, by whichever method it was made, goes on to os.Exit
\* when its write attempt has returned, with an error or without, and
\* os.Exit is called only by a caller whose write attempt has returned.
C13_FatalTerminates ==
    [][/\ \A c \in Callers :
             ( /\ call[c].level = FATAL
               /\ call[c].pc \in {"get", "write", "upd"}
               /\ call'[c].pc \in {"idle", "exit"} ) => call'[c].pc = "exit"
       /\ (exited' /\ ~exited) => \E c \in Callers : call[c].pc = "exit"]_vars

\* C14: when Close returns, every handle the Logger has opened is closed:
\* the file of every entry, the files that rotations replaced and the file
\* whose Stat failed.
C14_CloseClosesAll ==
    [][\A c \in Callers :
          (call[c].pc = "close" /\ call'[c].pc = "idle") =>
              \A h \in DOMAIN handles' : ~handles'[h].open]_vars

\* Close has run after a rotation: with no fault, only Close closes the
\* file of the current part
C14_Witness ==
    /\ faults = 0
    /\ Len(handles) >= 2
    /\ \E k \in DOMAIN logFiles : logFiles[k].partNum = 2 /\ logFiles[k].file = 2
    /\ \A h \in DOMAIN handles : ~handles[h].open

\* C15: under fair scheduling every call in progress (LogToProcess, the FATAL
\* wrappers, SetFormat, SetMaxFileSize, Close) returns, unless os.Exit ends
\* the process first.
C15_EveryCallReturns ==
    \A c \in Callers :
        (call[c].pc \notin {"idle", "dead"}) ~> (call[c].pc \in {"idle", "dead"})

\* the calls between their handle resolution and the end of their size update
InSection == {c \in Callers : call[c].pc \in {"write", "lock2", "upd"}}

\* C16: resolution, append and size update are one critical section: no two
\* calls are between their handle resolution and their size update at once.
C16_SingleCriticalSection == Cardinality(InSection) <= 1

\* C17: when no call is in progress (and no fault was injected), every
\* entry's size is the size its file had when the handle was opened plus the
\* bytes appended with success through that handle.
C17_SizeIsOpenPlusAppended ==
    (AllReturned /\ faults = 0) =>
        \A k \in DOMAIN logFiles :
            logFiles[k].size = handles[logFiles[k].file].base + handles[logFiles[k].file].wrote

\* C18: with rotation enabled, no line is appended to the file of an entry
\* whose size (tracked, or found on disk at the first open) has reached the
\* threshold.
C18_NoAppendPastThreshold ==
    [][\A c \in Callers :
          (call[c].pc = "write" /\ call'[c].pc = "lock2" /\ maxFileSize > 0) =>
              \A k \in DOMAIN logFiles :
                  logFiles[k].file = call[c].file => logFiles[k].size < maxFileSize]_vars

\* C19: (with no fault injected) the handle is open in the step in which a
\* call's file.Write is attempted.
C19_NoWriteOnClosed ==
    [][\A c \in Callers :
          ( /\ call[c].pc = "write" /\ call'[c].pc # "write"
            /\ hist'.encErr = hist.encErr
            /\ faults = 0 ) => handles[call[c].file].open]_vars

\* C20: the size update of a call whose handle is still the one of the entry
\* it was resolved under adds the line's length to that entry and changes no
\* other entry, whatever the date is by then.
C20_CreditsResolvedEntry ==
    [][\A c \in Callers :
          ( /\ call[c].pc = "upd" /\ call'[c].pc # "upd"
            /\ call[c].key \in DOMAIN logFiles
            /\ logFiles[call[c].key].file = call[c].file ) =>
              /\ logFiles'[call[c].key].size = logFiles[call[c].key].size + call[c].len
              /\ \A k \in DOMAIN logFiles \ {call[c].key} : logFiles'[k] = logFiles[k]]_vars

\* C21: a call that has appended its line holds a handle on a file of its
\* own (process, category, date): one in the process's directory, named
\* after the category and the date (so no two pairs share an entry).
C21_OwnEntryOwnFile ==
    \A c \in Callers :
        call[c].pc \in {"lock2", "upd"} =>
            handles[call[c].file].path \in
                {p \in DOMAIN files :
                    /\ p.dir = ProcessLogDir(call[c].proc)
                    /\ p.stem = BasePath(call[c].proc, call[c].cat, today).stem}

====
